---- MODULE Spec2Model ----
(***************************************************************************)
(* Model of the kue-backend service (src/main.py): the /mastermind        *)
(* handler with its MOCK and LIVE paths, prompt construction, the mock     *)
(* responder and the health check.                                         *)
(*                                                                         *)
(* Python strings that the code assembles by interpolation are modelled    *)
(* as sequences of text fragments: concatenation is \o, and a fragment is  *)
(* either a literal piece of the template or an interpolated value.        *)
(* An Optional[str] is <<>> for None and <<s>> for the string s.           *)
(***************************************************************************)
EXTENDS Naturals, Sequences, FiniteSets

\* ---- bounds of the model ----
NumReq == 2        \* number of /mastermind requests (handled concurrently)
MaxCorpus == 1     \* largest number of documents in the served style collection

\* ---- program constants ----
N_RESULTS == 3
STATUS_ERROR == 500

Slots == 1..NumReq

\* ---- inputs ----
Categories == {"Work", "Dating", "Friends", "Family", "Zzz"}
CustomInputs == {<<>>, <<"">>, <<"tell them no politely">>}
Texts == {"can we reschedule?", "u up?"}
AllDocs == <<"s1", "s2", "s3", "s4">>

Dossier(category) ==
  [name |-> "Sam", category |-> category, role_title |-> "Manager", archetype |-> "Standard"]

RequestPayload ==
  { [incoming_text |-> t, dossier |-> Dossier(c), custom_input |-> ci, previous_rejects |-> <<>>] :
      t \in Texts, c \in Categories, ci \in CustomInputs }

\* the requests sent to the running service: each served category with its own text
ServedRequests ==
  { r \in RequestPayload :
      \/ r.dossier.category = "Work" /\ r.incoming_text = "can we reschedule?"
      \/ r.dossier.category = "Friends" /\ r.incoming_text = "u up?" }

NoReq ==
  [incoming_text |-> "", dossier |-> Dossier(""), custom_input |-> <<>>, previous_rejects |-> <<>>]

\* Python truthiness of an Optional[str]: None and "" are falsy.
Truthy(opt) == opt /= <<>> /\ opt[1] /= ""

VARIABLES OPENAI_API_KEY, USE_MOCK_AI, collection, slot, health, probe

vars == <<OPENAI_API_KEY, USE_MOCK_AI, collection, slot, health, probe>>

\* ---- pure functions ----

RECURSIVE Bullets(_)
\* "\n".join([f"- {s}" for s in style_docs])
Bullets(docs) ==
  IF docs = <<>> THEN <<>>
  ELSE IF Len(docs) = 1 THEN <<"- ", docs[1]>>
  ELSE <<"- ", docs[1], "\n">> \o Bullets(Tail(docs))

NO_SAMPLES == "(No past samples, use standard tone)"

\* style_docs = results['documents'][0] if results['documents'] else []
style_docs(documents) == IF documents /= <<>> THEN documents[1] ELSE <<>>

\* variant: the placeholder for an empty sample list is left out
style_context_no_placeholder(docs) == Bullets(docs)

\* style_context = "\n".join(...) if style_docs else "(No past samples, ...)"
style_context(docs) ==
  IF docs /= <<>> THEN Bullets(docs) ELSE <<NO_SAMPLES>>

WORK_PERSONA == "You are a Strategic Corporate Communication Expert."
DATING_PERSONA == "You are a High-EQ Dating Coach."
FRIEND_PERSONA == "You are a witty friend."
Personas == {WORK_PERSONA, DATING_PERSONA, FRIEND_PERSONA}

\* variant: the "Dating" branch is never taken
Persona_no_dating(category) ==
  IF category = "Work" THEN
    [persona |-> WORK_PERSONA,
     neg_definition |-> "Firm Refusal / Setting Boundaries",
     pos_definition |-> "Agreement / Action-Oriented"]
  ELSE
    [persona |-> FRIEND_PERSONA,
     neg_definition |-> "Disagreement / Roast",
     pos_definition |-> "Hype / Love"]

\* 5a. Define Persona
Persona(category) ==
  IF category = "Work" THEN
    [persona |-> WORK_PERSONA,
     neg_definition |-> "Firm Refusal / Setting Boundaries",
     pos_definition |-> "Agreement / Action-Oriented"]
  ELSE IF category = "Dating" THEN
    [persona |-> DATING_PERSONA,
     neg_definition |-> "Disinterest / Sassy",
     pos_definition |-> "Warmth / Flirting"]
  ELSE
    [persona |-> FRIEND_PERSONA,
     neg_definition |-> "Disagreement / Roast",
     pos_definition |-> "Hype / Love"]

TASK_HEADER == "2. \"replies\": "

\* 5b. Define Generation Logic
generation_task(req, p) ==
  IF Truthy(req.custom_input) THEN
    <<"USER CUSTOM REQUEST: \"", req.custom_input[1],
      "\" Generate 3 variations of this specific custom request. keys: [",
      "option_1", ", ", "option_2", ", ", "option_3", "]">>
  ELSE
    <<"Generate 3 Distinct Sentiment Options: 1. ",
      "positive", ": ", p.pos_definition, " 2. ",
      "neutral", ": Safe / Non-committal 3. ",
      "negative", ": ", p.neg_definition>>

SAMPLES_HEADER == "- User's Style Samples (from Vector DB):"
YOUR_TASK == "YOUR TASK (Output JSON Only):"

build_system_prompt(req, style_data) ==
  LET p == Persona(req.dossier.category) IN
    <<"ROLE: ", p.persona,
      "INPUT CONTEXT: - User is replying to: ", req.dossier.name,
      " (", req.dossier.role_title, ")",
      SAMPLES_HEADER>>
    \o style_data
    \o <<YOUR_TASK,
         "1. \"analysis\": Decode the incoming message (translation, threat_level, strategy_advice).",
         TASK_HEADER>>
    \o generation_task(req, p)

\* variant: the custom branch tests "custom_input is not None" instead of truthiness
generate_mock_response_not_none(req) ==
  LET category == req.dossier.category IN
  IF req.custom_input /= <<>> THEN
    [analysis |-> [translation |-> "Custom Mode", strategy_advice |-> "Executing command."],
     replies |-> [option_1 |-> <<"Custom: ", req.custom_input[1]>>,
                  option_2 |-> <<"Variation: ", req.custom_input[1]>>,
                  option_3 |-> <<"Short: ", req.custom_input[1]>>]]
  ELSE
    [analysis |-> [translation |-> "Mock Logic", strategy_advice |-> "This is a demo response."],
     replies |-> IF category = "Work"
                 THEN [positive |-> <<"I will handle this immediately.">>,
                       neutral |-> <<"Received, reviewing now.">>,
                       negative |-> <<"My bandwidth is full.">>]
                 ELSE [positive |-> <<"Sounds good!">>,
                       neutral |-> <<"I'll let you know.">>,
                       negative |-> <<"No thanks.">>]]

generate_mock_response(req) ==
  LET category == req.dossier.category IN
  IF Truthy(req.custom_input) THEN
    [analysis |-> [translation |-> "Custom Mode", strategy_advice |-> "Executing command."],
     replies |-> [option_1 |-> <<"Custom: ", req.custom_input[1]>>,
                  option_2 |-> <<"Variation: ", req.custom_input[1]>>,
                  option_3 |-> <<"Short: ", req.custom_input[1]>>]]
  ELSE
    [analysis |-> [translation |-> "Mock Logic", strategy_advice |-> "This is a demo response."],
     replies |-> IF category = "Work"
                 THEN [positive |-> <<"I will handle this immediately.">>,
                       neutral |-> <<"Received, reviewing now.">>,
                       negative |-> <<"My bandwidth is full.">>]
                 ELSE [positive |-> <<"Sounds good!">>,
                       neutral |-> <<"I'll let you know.">>,
                       negative |-> <<"No thanks.">>]]

\* ---- the chat completion's content and json.loads ----
CONTENT_SENTIMENT == "{\"analysis\":{..},\"replies\":{\"positive\":\"a\",\"neutral\":\"b\",\"negative\":\"c\"}}"
CONTENT_OPTIONS == "{\"analysis\":{..},\"replies\":{\"option_1\":\"a\",\"option_2\":\"b\",\"option_3\":\"c\"}}"
CONTENT_TWO == "{\"analysis\":{..},\"replies\":{\"positive\":\"a\",\"negative\":\"c\"}}"
CONTENT_NOT_JSON == "Sure! Here are three replies:"
Contents == {CONTENT_SENTIMENT, CONTENT_OPTIONS, CONTENT_TWO, CONTENT_NOT_JSON}

JSON_ERROR == "Expecting value: line 1 column 1 (char 0)"
QUERY_ERROR == "similarity index unavailable"
CHAT_ERROR == "Connection error."

ParsedAnalysis == [translation |-> "t", strategy_advice |-> "s"]

json_loads(content) ==
  IF content = CONTENT_SENTIMENT THEN
    [raised |-> FALSE, error |-> "",
     value |-> [analysis |-> ParsedAnalysis,
                replies |-> [positive |-> <<"a">>, neutral |-> <<"b">>, negative |-> <<"c">>]]]
  ELSE IF content = CONTENT_OPTIONS THEN
    [raised |-> FALSE, error |-> "",
     value |-> [analysis |-> ParsedAnalysis,
                replies |-> [option_1 |-> <<"a">>, option_2 |-> <<"b">>, option_3 |-> <<"c">>]]]
  ELSE IF content = CONTENT_TWO THEN
    [raised |-> FALSE, error |-> "",
     value |-> [analysis |-> ParsedAnalysis,
                replies |-> [positive |-> <<"a">>, negative |-> <<"c">>]]]
  ELSE
    [raised |-> TRUE, error |-> JSON_ERROR, value |-> [detail |-> JSON_ERROR]]

\* ---- responses ----
NoOutcome == [kind |-> "none", status |-> 0, body |-> [detail |-> ""]]
Ok(body) == [kind |-> "ok", status |-> 200, body |-> body]
\* raise HTTPException(status_code=500, detail=str(e))
HTTPException(status_code, detail) ==
  [kind |-> "http_error", status |-> status_code, body |-> [detail |-> detail]]

\* ---- the similarity search (external collaborator) ----
Min(a, b) == IF a < b THEN a ELSE b

Range(seq) == { seq[i] : i \in 1..Len(seq) }

\* the rankings the index may return: n_results distinct stored documents
\* (fewer when the collection is smaller), in any order
Rankings(coll, n) ==
  { r \in [1..Min(n, Len(coll)) -> Range(coll)] :
      \A i, j \in 1..Min(n, Len(coll)) : i /= j => r[i] /= r[j] }

\* values of results['documents'] for a single query text
QueryDocuments(coll, n) == {<<>>} \cup { <<r>> : r \in Rankings(coll, n) }

QueryResults(coll, n) ==
  {[raised |-> TRUE, error |-> QUERY_ERROR, documents |-> <<>>]}
  \cup { [raised |-> FALSE, error |-> "", documents |-> d] : d \in QueryDocuments(coll, n) }

ChatResults ==
  {[raised |-> TRUE, error |-> CHAT_ERROR, content |-> ""]}
  \cup { [raised |-> FALSE, error |-> "", content |-> c] : c \in Contents }

\* ---- state ----
IdleSlot ==
  [pc |-> "idle", branch |-> "none", req |-> NoReq,
   nq |-> 0, nc |-> 0, qargs |-> <<>>, qres |-> "none", documents |-> <<>>,
   messages |-> <<>>, cres |-> "none", content |-> "", outcome |-> NoOutcome]

Corpora(max) == { SubSeq(AllDocs, 1, n) : n \in 0..Min(max, Len(AllDocs)) }

\* the functions of the module applied to one request outside the service
NoProbe ==
  [req |-> NoReq, documents |-> <<>>, composed |-> FALSE, system_instruction |-> <<>>,
   mocked |-> FALSE, mock |-> NoOutcome.body]

Init ==
  /\ OPENAI_API_KEY \in {<<>>, <<"">>, <<"sk-test">>}
  /\ USE_MOCK_AI = ~Truthy(OPENAI_API_KEY)
  /\ collection \in Corpora(MaxCorpus)
  /\ slot = [s \in Slots |-> IdleSlot]
  /\ health = <<>>
  /\ probe = NoProbe

\* return / raise: the handler's locals are gone, the response is in flight;
\* nq, nc, qres, cres and content stay as the record of the outbound calls
Return(sl, outcome) ==
  [sl EXCEPT !.pc = "done", !.req = NoReq, !.qargs = <<>>, !.documents = <<>>,
             !.messages = <<>>, !.outcome = outcome]

\* --- A. MOCK MODE ---: return generate_mock_response(request)
MockPath(sl, req) ==
  Return([sl EXCEPT !.branch = "mock"], Ok(generate_mock_response(req)))

\* --- B. LIVE MODE ---: up to the call of collection.query, now in flight
LivePath(sl, req) ==
  [sl EXCEPT !.pc = "querying", !.branch = "live", !.req = req,
             !.nq = @ + 1,
             !.qargs = <<[query_texts |-> <<req.incoming_text>>, n_results |-> N_RESULTS]>>]

\* the query returned: style context, prompt, and the chat call, now in flight
QueryReturned(sl, res) ==
  LET req == sl.req
      docs == style_docs(res.documents)
      system_instruction == build_system_prompt(req, style_context(docs))
  IN [sl EXCEPT !.pc = "chatting", !.qres = "ok", !.documents = res.documents,
                !.nc = @ + 1,
                !.messages =
                  <<[role |-> "system", content |-> system_instruction],
                    [role |-> "user",
                     content |-> <<"Incoming Message: \"", req.incoming_text,
                                   "\" Analyze and Generate.">>]>>]

\* variant: a failed query is taken as "no documents" and the request goes on
QueryRaised_swallowed(sl, res) ==
  [QueryReturned(sl, [res EXCEPT !.documents = <<>>]) EXCEPT !.qres = "raised"]

\* the query raised: except Exception -> HTTPException(500)
QueryRaised(sl, res) ==
  Return([sl EXCEPT !.qres = "raised"], HTTPException(STATUS_ERROR, res.error))

\* the chat call raised: except Exception -> HTTPException(500)
ChatRaised(sl, res) ==
  Return([sl EXCEPT !.cres = "raised"], HTTPException(STATUS_ERROR, res.error))

\* variant: content that does not parse is passed on as a successful response
ChatReturned_unparsed(sl, res) ==
  LET parsed == json_loads(res.content) IN
    Return([sl EXCEPT !.cres = "returned", !.content = res.content], Ok(parsed.value))

\* the chat call returned: return json.loads(content), or its exception caught
ChatReturned(sl, res) ==
  LET parsed == json_loads(res.content) IN
    Return([sl EXCEPT !.cres = "returned", !.content = res.content],
           IF parsed.raised THEN HTTPException(STATUS_ERROR, parsed.error)
           ELSE Ok(parsed.value))

\* variant: the mode flag is not consulted
run_mastermind_always_live(s, req) ==
  /\ slot[s].pc = "idle"
  /\ slot' = [slot EXCEPT ![s] = LivePath(@, req)]
  /\ UNCHANGED <<OPENAI_API_KEY, USE_MOCK_AI, collection, health, probe>>

\* POST /mastermind arrives: the branch on USE_MOCK_AI, then either the whole
\* mock path or the live path up to the call of collection.query
run_mastermind(s, req) ==
  /\ slot[s].pc = "idle"
  /\ slot' = [slot EXCEPT ![s] = IF USE_MOCK_AI THEN MockPath(@, req) ELSE LivePath(@, req)]
  /\ UNCHANGED <<OPENAI_API_KEY, USE_MOCK_AI, collection, health, probe>>

\* variant: the handler stores the incoming text in the collection
QueryReturns_adds(s) ==
  /\ slot[s].pc = "querying"
  /\ \E res \in QueryResults(collection, slot[s].qargs[1].n_results) :
       slot' = [slot EXCEPT ![s] =
                  IF res.raised THEN QueryRaised(@, res) ELSE QueryReturned(@, res)]
  /\ collection' = Append(collection, slot[s].req.incoming_text)
  /\ UNCHANGED <<OPENAI_API_KEY, USE_MOCK_AI, health, probe>>

\* variant: a failed query is retried once
QueryReturns_retry(s) ==
  /\ slot[s].pc = "querying"
  /\ \E res \in QueryResults(collection, slot[s].qargs[1].n_results) :
       slot' = [slot EXCEPT ![s] =
                  IF res.raised
                  THEN IF @.nq < 2 THEN [@ EXCEPT !.nq = @ + 1] ELSE QueryRaised(@, res)
                  ELSE QueryReturned(@, res)]
  /\ UNCHANGED <<OPENAI_API_KEY, USE_MOCK_AI, collection, health, probe>>

\* collection.query returns or raises; on return the prompt is built and
\* client.chat.completions.create is called
QueryReturns(s) ==
  /\ slot[s].pc = "querying"
  /\ \E res \in QueryResults(collection, slot[s].qargs[1].n_results) :
       slot' = [slot EXCEPT ![s] =
                  IF res.raised THEN QueryRaised(@, res) ELSE QueryReturned(@, res)]
  /\ UNCHANGED <<OPENAI_API_KEY, USE_MOCK_AI, collection, health, probe>>

\* the chat completion returns or raises; json.loads of its content
ChatReturns(s) ==
  /\ slot[s].pc = "chatting"
  /\ \E res \in ChatResults :
       slot' = [slot EXCEPT ![s] =
                  IF res.raised THEN ChatRaised(@, res) ELSE ChatReturned(@, res)]
  /\ UNCHANGED <<OPENAI_API_KEY, USE_MOCK_AI, collection, health, probe>>

\* variant: the mode label is inverted
home_inverted ==
  /\ health' = <<[status |-> "Kue Mastermind Ready",
                  mode |-> IF USE_MOCK_AI THEN "LIVE" ELSE "MOCK"]>>
  /\ UNCHANGED <<OPENAI_API_KEY, USE_MOCK_AI, collection, slot, probe>>

\* GET /
home ==
  /\ health' = <<[status |-> "Kue Mastermind Ready",
                  mode |-> IF USE_MOCK_AI THEN "MOCK" ELSE "LIVE"]>>
  /\ UNCHANGED <<OPENAI_API_KEY, USE_MOCK_AI, collection, slot, probe>>

Next ==
  \/ \E s \in Slots : \E req \in ServedRequests : run_mastermind(s, req)
  \/ \E s \in Slots : QueryReturns(s)
  \/ \E s \in Slots : ChatReturns(s)
  \/ home

Spec == Init /\ [][Next]_vars

\* ---- prompt construction and the mock responder on their own ----
InitPure ==
  /\ OPENAI_API_KEY = <<>>
  /\ USE_MOCK_AI = TRUE
  /\ collection \in Corpora(Len(AllDocs))
  /\ slot = [s \in Slots |-> IdleSlot]
  /\ health = <<>>
  /\ \E req \in RequestPayload : \E d \in QueryDocuments(collection, N_RESULTS) :
       probe = [NoProbe EXCEPT !.req = req, !.documents = d]

\* run_mastermind, steps 1 and 2 after the query has returned
Compose ==
  /\ ~probe.composed
  /\ probe' = [probe EXCEPT !.composed = TRUE,
                 !.system_instruction =
                    build_system_prompt(probe.req, style_context(style_docs(probe.documents)))]
  /\ UNCHANGED <<OPENAI_API_KEY, USE_MOCK_AI, collection, slot, health>>

Mock ==
  /\ ~probe.mocked
  /\ probe' = [probe EXCEPT !.mocked = TRUE, !.mock = generate_mock_response(probe.req)]
  /\ UNCHANGED <<OPENAI_API_KEY, USE_MOCK_AI, collection, slot, health>>

NextPure == Compose \/ Mock

SpecPure == InitPure /\ [][NextPure]_vars

\* ==== properties ====

SENTIMENT_KEYS == {"positive", "neutral", "negative"}
OPTION_KEYS == {"option_1", "option_2", "option_3"}

Live == ~USE_MOCK_AI

\* position of the first occurrence of a fragment in a text
IndexOf(text, fragment) ==
  CHOOSE i \in 1..Len(text) : text[i] = fragment /\ \A j \in 1..(i - 1) : text[j] /= fragment

\* the style-context block of a system prompt: between the samples header and the task
StyleBlock(prompt) ==
  SubSeq(prompt, IndexOf(prompt, SAMPLES_HEADER) + 1, IndexOf(prompt, YOUR_TASK) - 1)

\* the generation task of a system prompt: what follows the "replies" header
TaskOf(prompt) == SubSeq(prompt, IndexOf(prompt, TASK_HEADER) + 1, Len(prompt))

\* the reply labels a generation task names
LabelsNamed(task) == Range(task) \cap (SENTIMENT_KEYS \cup OPTION_KEYS)

MockBodies == { generate_mock_response(r) : r \in RequestPayload }

\* C1: in MOCK mode no request performs a similarity query or a chat call,
\* and every handled request has succeeded with a mock response.
C1_MockNoOutboundCalls ==
  USE_MOCK_AI =>
    \A s \in Slots :
      /\ slot[s].nq = 0
      /\ slot[s].nc = 0
      /\ slot[s].pc \in {"idle", "done"}
      /\ slot[s].pc = "done" =>
           /\ slot[s].outcome.kind = "ok"
           /\ slot[s].outcome.body \in MockBodies

C1_Witness ==
  /\ USE_MOCK_AI
  /\ \A s \in Slots : slot[s].pc = "done"
  /\ \E s \in Slots : DOMAIN slot[s].outcome.body.replies = OPTION_KEYS
  /\ \E s \in Slots : DOMAIN slot[s].outcome.body.replies = SENTIMENT_KEYS

\* C2 as stated: in LIVE mode a failed similarity query is swallowed: the
\* request goes on to the chat call and the caller gets no error because of it.
C2_SearchFailureSwallowed ==
  Live =>
    \A s \in Slots :
      (slot[s].qres = "raised" /\ slot[s].pc = "done") =>
        /\ slot[s].nc = 1
        /\ ~(slot[s].outcome.kind = "http_error"
             /\ slot[s].outcome.body.detail = QUERY_ERROR)

\* C2: in LIVE mode a failed similarity query ends the request: the caller gets
\* the uniform failure (status 500 with the query's error message) and no chat
\* call is made; a query that returns without documents goes on to the chat call.
C2_SearchFailureSurfaced ==
  Live =>
    \A s \in Slots :
      /\ slot[s].qres = "raised" =>
           /\ slot[s].pc = "done"
           /\ slot[s].nc = 0
           /\ slot[s].outcome = [kind |-> "http_error", status |-> 500,
                                 body |-> [detail |-> QUERY_ERROR]]
      /\ (slot[s].pc = "chatting" /\ slot[s].documents \in {<<>>, << <<>> >>}) =>
           /\ slot[s].qres = "ok"
           /\ slot[s].nc = 1
           /\ NO_SAMPLES \in Range(slot[s].messages[1].content)

C2_Witness ==
  /\ Live
  /\ \E s \in Slots : slot[s].qres = "raised" /\ slot[s].pc = "done"
  /\ \E s \in Slots : slot[s].pc = "chatting" /\ slot[s].documents = << <<>> >>

\* the message of the step that failed in a finished live request
FailureMessage(sl) ==
  IF sl.qres = "raised" THEN QUERY_ERROR
  ELSE IF sl.cres = "raised" THEN CHAT_ERROR
  ELSE JSON_ERROR

LiveFailed(sl) ==
  \/ sl.qres = "raised"
  \/ sl.cres = "raised"
  \/ sl.cres = "returned" /\ json_loads(sl.content).raised

\* C3: in LIVE mode a finished request has exactly one of two outcomes: the
\* parsed chat content, or the uniform failure (status 500, body {detail: message});
\* a raised chat call or unparsable content always gives the failure.
C3_LiveOutcomes ==
  Live =>
    \A s \in Slots :
      slot[s].pc = "done" =>
        LET sl == slot[s] IN
          IF LiveFailed(sl)
          THEN /\ sl.outcome.kind = "http_error"
               /\ sl.outcome.status = 500
               /\ DOMAIN sl.outcome.body = {"detail"}
               /\ sl.outcome.body.detail = FailureMessage(sl)
          ELSE /\ sl.outcome.kind = "ok"
               /\ sl.cres = "returned"
               /\ sl.outcome.body = json_loads(sl.content).value
               /\ "detail" \notin DOMAIN sl.outcome.body

C3_Witness ==
  /\ Live
  /\ \E s \in Slots : slot[s].pc = "done" /\ slot[s].content = CONTENT_NOT_JSON
  /\ \E s \in Slots : slot[s].pc = "done" /\ slot[s].cres = "raised"

StartupMode == IF Truthy(OPENAI_API_KEY) THEN "LIVE" ELSE "MOCK"

ModeConsistent ==
  /\ USE_MOCK_AI <=> (StartupMode = "MOCK")
  /\ health /= <<>> => health[1].mode = StartupMode
  /\ \A s \in Slots :
       slot[s].branch /= "none" =>
         slot[s].branch = (IF StartupMode = "MOCK" THEN "mock" ELSE "live")

\* C4: the mode is the one the credential gave at startup and never changes:
\* the health check reports it and every request takes its branch.
C4_ModeFixed ==
  /\ []ModeConsistent
  /\ [][USE_MOCK_AI' = USE_MOCK_AI /\ OPENAI_API_KEY' = OPENAI_API_KEY]_vars

C4_Witness ==
  /\ health /= <<>>
  /\ OPENAI_API_KEY = <<"">>
  /\ \A s \in Slots : slot[s].pc = "done"

\* C5: every successful response has a replies mapping of exactly 3 entries,
\* keyed positive/neutral/negative or option_1/option_2/option_3.
C5_ThreeReplies ==
  \A s \in Slots :
    slot[s].outcome.kind = "ok" =>
      /\ "replies" \in DOMAIN slot[s].outcome.body
      /\ DOMAIN slot[s].outcome.body.replies \in {SENTIMENT_KEYS, OPTION_KEYS}

\* C6: the mock responder and the prompt branch alike on custom_input: the mock
\* reply keys are the labels the generation task names, and a non-empty
\* custom_input selects the option labels whatever the category.
C6_SameBranch ==
  (probe.composed /\ probe.mocked) =>
    LET keys == DOMAIN probe.mock.replies
        named == LabelsNamed(TaskOf(probe.system_instruction))
        ci == probe.req.custom_input
    IN /\ named \in {SENTIMENT_KEYS, OPTION_KEYS}
       /\ keys = named
       /\ (ci /= <<>> /\ ci[1] /= "") => keys = OPTION_KEYS
       /\ (ci = <<>> \/ ci = <<"">>) => keys = SENTIMENT_KEYS

C6_Witness ==
  /\ probe.composed
  /\ probe.mocked
  /\ probe.req.custom_input = <<"">>
  /\ probe.req.dossier.category = "Work"

\* C7: no step of any request, in either mode, changes the style collection.
C7_CollectionUnchanged == [][collection' = collection]_vars

C7_Witness ==
  /\ Live
  /\ collection /= <<>>
  /\ health /= <<>>
  /\ \E s \in Slots : slot[s].outcome.kind = "ok"
  /\ \E s \in Slots : slot[s].outcome.kind = "http_error"

\* C8: a live request makes at most one query (the incoming text, 3 results),
\* then composes the prompt, then makes at most one chat call; the chat call
\* comes only after the query returned, and nothing follows a failed step.
C8_LiveOrder ==
  Live =>
    \A s \in Slots :
      LET sl == slot[s] IN
        /\ sl.nq <= 1
        /\ sl.nc <= 1
        /\ sl.pc = "idle" => sl.nq = 0 /\ sl.nc = 0
        /\ sl.pc = "querying" =>
             /\ sl.nq = 1 /\ sl.nc = 0
             /\ sl.qargs = <<[query_texts |-> <<sl.req.incoming_text>>, n_results |-> 3]>>
        /\ sl.nc = 1 => sl.nq = 1 /\ sl.qres = "ok"
        /\ sl.pc = "chatting" =>
             /\ sl.nc = 1
             /\ sl.messages[1].role = "system"
             /\ TASK_HEADER \in Range(sl.messages[1].content)
             /\ sl.messages[2].role = "user"
             /\ sl.req.incoming_text \in Range(sl.messages[2].content)
             /\ sl.cres = "none"
        /\ sl.qres = "raised" => sl.pc = "done" /\ sl.nc = 0 /\ sl.cres = "none"
        /\ sl.cres /= "none" => sl.pc = "done"

C8_Witness ==
  /\ Live
  /\ \E s \in Slots : slot[s].pc = "done" /\ slot[s].qres = "raised"
  /\ \E s \in Slots : slot[s].pc = "done" /\ slot[s].cres = "returned"

\* C9: the style block of the system prompt is never empty: it is the
\* no-samples placeholder when the query gave no documents (no result list or an
\* empty first list), and otherwise one bullet per sample in the order returned.
C9_StyleBlock ==
  probe.composed =>
    LET block == StyleBlock(probe.system_instruction)
        samples == IF probe.documents = <<>> THEN <<>> ELSE probe.documents[1]
    IN /\ block /= <<>>
       /\ samples = <<>> => block = <<NO_SAMPLES>>
       /\ samples /= <<>> =>
            /\ NO_SAMPLES \notin Range(block)
            /\ Len(block) = 3 * Len(samples) - 1
            /\ \A i \in 1..Len(samples) :
                 /\ block[3 * i - 2] = "- "
                 /\ block[3 * i - 1] = samples[i]
                 /\ i < Len(samples) => block[3 * i] = "\n"

C9_Witness ==
  /\ probe.composed
  /\ probe.documents = << <<>> >>

ExpectedPersona(category) ==
  IF category = "Work" THEN WORK_PERSONA
  ELSE IF category = "Dating" THEN DATING_PERSONA
  ELSE FRIEND_PERSONA

Definitions ==
  [p \in Personas |->
     IF p = WORK_PERSONA
     THEN {"Agreement / Action-Oriented", "Firm Refusal / Setting Boundaries"}
     ELSE IF p = DATING_PERSONA
     THEN {"Warmth / Flirting", "Disinterest / Sassy"}
     ELSE {"Hype / Love", "Disagreement / Roast"}]

AllDefinitions == UNION { Definitions[p] : p \in Personas }

\* C10: every category gives exactly one persona in the prompt: the work persona
\* for "Work", the dating persona for "Dating", the witty friend for anything
\* else; the sentiment task carries that persona's two definitions.
C10_PersonaTotal ==
  probe.composed =>
    LET prompt == probe.system_instruction
        category == probe.req.dossier.category
    IN /\ Cardinality({ i \in 1..Len(prompt) : prompt[i] \in Personas }) = 1
       /\ prompt[2] = ExpectedPersona(category)
       /\ LabelsNamed(TaskOf(prompt)) = SENTIMENT_KEYS =>
            Range(prompt) \cap AllDefinitions = Definitions[ExpectedPersona(category)]

C10_Witness ==
  /\ probe.composed
  /\ probe.req.dossier.category = "Zzz"
  /\ probe.req.custom_input = <<>>

====
